---- MODULE Spec2Model ----
(***************************************************************************)
(* Model of the Rolodex directory service (WebHacking/100-Rolodex/src/     *)
(* app.py): the module-level tables participant_data / access_tokens, the  *)
(* snapshot file, the wall clock, and one action per HTTP handler.  The    *)
(* service runs bottle's single-threaded server, so a request is one       *)
(* atomic step in Spec, SpecClock and SpecLoad.  SpecThreads runs GET      *)
(* /token and PUT /users/<uid> as two threads, one step per access to the  *)
(* shared tables, as a threaded server would.                              *)
(*                                                                         *)
(* Text is a tuple of one-character strings so that strip() and lower()    *)
(* are computed rather than assumed.  A JSON value is Str(text) or Null.   *)
(* time.time() is a float: the clock `now` counts ticks of                 *)
(* 1/TicksPerSecond second, and int() is floor division by TicksPerSecond. *)
(* A token (sha256 of 1024 random bytes) is modelled as a fresh number.    *)
(***************************************************************************)
EXTENDS Integers, Sequences, FiniteSets, TLC

VARIABLES
    participant_data,   \* username -> participant record (attribute -> value)
    access_tokens,      \* token -> [username, uid, expires]
    save_filename,      \* "" when no --save was given
    snapshot,           \* content of the save file
    now,                \* time.time(), in ticks
    ticks,              \* number of clock advances so far
    issued,             \* history: token -> [username, at] for every token handed out
    saved,              \* whether the last request wrote the save file
    response,           \* the last request and its response
    employee_data,      \* uid -> employee record
    participants_file,  \* the rows of the participants file read at start-up
    threads             \* the requests in progress when handlers run concurrently

vars == <<participant_data, access_tokens, save_filename, snapshot, now, ticks,
          issued, saved, response, employee_data, participants_file, threads>>

\* What no single-threaded request writes
others == <<employee_data, participants_file, threads>>

(***************************** constants **********************************)

MAX_PARTICIPANT_UID == 500

ACCESS_TOKEN_LIFETIME == 900

\* Resolution of the clock: ticks per second.
TicksPerSecond == 4

\* How many times the clock advances in Spec, by more than a lifetime each time.
MaxTicks == 1

\* How many times the clock advances in SpecClock.
MaxClockTicks == 3

\* How many tokens are handed out.
MaxTokens == 2

\* How many rows the participants file has at most in SpecLoad.
MaxRows == 2

\* participant["token"] = None
NoToken == 0

LifetimeTicks == ACCESS_TOKEN_LIFETIME * TicksPerSecond

\* The clock advances by one tick or by one tick less than the lifetime.
TickSteps == {1, LifetimeTicks - 1}

(******************************* text *************************************)

UPPER == <<"A","B","C","D","E","F","G","H","I","J","K","L","M",
           "N","O","P","Q","R","S","T","U","V","W","X","Y","Z">>
LOWER == <<"a","b","c","d","e","f","g","h","i","j","k","l","m",
           "n","o","p","q","r","s","t","u","v","w","x","y","z">>

\* The lower-case letter of each upper-case letter
LowerOf ==
    [c \in {UPPER[i] : i \in DOMAIN UPPER} |->
        LOWER[CHOOSE i \in DOMAIN UPPER : UPPER[i] = c]]

LowerChar(c) == IF c \in DOMAIN LowerOf THEN LowerOf[c] ELSE c

\* str.lower()
Lower(s) == [i \in DOMAIN s |-> LowerChar(s[i])]

RECURSIVE LStrip(_)
LStrip(s) == IF s # <<>> /\ Head(s) = " " THEN LStrip(Tail(s)) ELSE s

RECURSIVE RStrip(_)
RStrip(s) ==
    IF s # <<>> /\ s[Len(s)] = " " THEN RStrip(SubSeq(s, 1, Len(s) - 1)) ELSE s

\* str.strip()
Strip(s) == RStrip(LStrip(s))

Str(s) == [kind |-> "str", val |-> s]
Null == [kind |-> "null", val |-> <<>>]

\* hashlib.sha1(password).hexdigest(): distinct passwords of the model have
\* distinct digests.
SHA1(password) == <<"sha1", password>>

(**************************** start-up data *******************************)

\* The rows of the participants file: username as written, hashed password.
ParticipantRows ==
    << << <<" ","A","l">>, SHA1("pw1") >>,
       << <<"b","o"," ">>, SHA1("pw2") >> >>

\* The rows of the employees file: uid, username, position, notes.
EmployeeRows ==
    << [uid |-> 501, username |-> <<"c","e","o">>,
        position |-> <<"C","E","O">>, notes |-> <<"f","l","a","g">>],
       [uid |-> 600, username |-> <<"h","r">>,
        position |-> <<"A","d","m","i","n">>, notes |-> <<"x">>] >>

Participant(uid, row) ==
    [uid        |-> uid,
     name       |-> Str(<<"J","o">>),
     location   |-> Str(<<"B">>),
     department |-> Str(<<"M">>),
     position   |-> Str(<<"I","n","t","e","r","n">>),
     notes      |-> Str(<<"n","o">>),
     username   |-> Lower(Strip(row[1])),
     password   |-> row[2],
     token      |-> NoToken]

\* load_participants counting from MAX_PARTICIPANT_UID + 1
LoadFromAboveBoundary(rows) ==
    LET username(i) == Lower(Strip(rows[i][1]))
        last(u) == CHOOSE i \in DOMAIN rows :
                      /\ username(i) = u
                      /\ \A j \in DOMAIN rows : username(j) = u => j <= i
    IN [u \in {username(i) : i \in DOMAIN rows} |->
            Participant(MAX_PARTICIPANT_UID + last(u), rows[last(u)])]

load_participants(rows) ==
    LET username(i) == Lower(Strip(rows[i][1]))
        \* a later row with the same username replaces an earlier one
        last(u) == CHOOSE i \in DOMAIN rows :
                      /\ username(i) = u
                      /\ \A j \in DOMAIN rows : username(j) = u => j <= i
    IN [u \in {username(i) : i \in DOMAIN rows} |->
            Participant(MAX_PARTICIPANT_UID + last(u) - 1, rows[last(u)])]

load_employees(rows) ==
    LET last(uid) == CHOOSE i \in DOMAIN rows :
                        /\ rows[i].uid = uid
                        /\ \A j \in DOMAIN rows : rows[j].uid = uid => j <= i
    IN [uid \in {rows[i].uid : i \in DOMAIN rows} |->
            [uid        |-> uid,
             name       |-> Str(<<"E">>),
             username   |-> rows[last(uid)].username,
             location   |-> Str(<<"H","Q">>),
             department |-> Str(<<"X">>),
             position   |-> Str(rows[last(uid)].position),
             notes      |-> Str(rows[last(uid)].notes)]]

NoSnapshot == [exists |-> FALSE]

(****************************** helpers ***********************************)

\* save_participants() writing the token table as it was when the request began
SaveStaleTokens(participants, tokens) ==
    IF save_filename = ""
    THEN snapshot
    ELSE [exists |-> TRUE, participants |-> participants, tokens |-> access_tokens]

\* save_participants(): the file content after the call
save_participants(participants, tokens) ==
    IF save_filename = ""
    THEN snapshot
    ELSE [exists |-> TRUE, participants |-> participants, tokens |-> tokens]

\* whether save_participants() writes
Saves == save_filename # ""

\* int(time.time() + ACCESS_TOKEN_LIFETIME), in seconds
Expires(t) == (t + LifetimeTicks) \div TicksPerSecond

\* ensure_valid_token refusing a token at its expiry already (<= for <)
TokenRejectedAtExpiry(token) ==
    \/ token \notin DOMAIN access_tokens
    \/ access_tokens[token].expires * TicksPerSecond <= now

\* ensure_valid_token: the condition of the 403
TokenRejected(token) ==
    \/ token \notin DOMAIN access_tokens
    \/ access_tokens[token].expires * TicksPerSecond < now

Caller(token) == participant_data[access_tokens[token].username]

\* user["position"].lower() raises unless position is present and a string
PositionIsText(user) ==
    /\ "position" \in DOMAIN user
    /\ user["position"].kind = "str"

\* has_admin_privileges comparing the position as written, without lower()
AdminAsWritten(user) ==
    user["position"].val = <<"a","d","m","i","n">>

has_admin_privileges(user) ==
    Lower(user["position"].val) = <<"a","d","m","i","n">>

(***************************** requests ***********************************)

\* The attributes PUT may change
rw_attributes == {"name", "location", "department", "position", "notes"}

\* set(changes.keys()).difference(rw_attributes)
BadAttributes(changes) == DOMAIN changes \ rw_attributes

\* `attribute is None`: the test is on the key of the JSON object
IsNone(attribute) == attribute \notin STRING

\* set_user merging into a copy that has lost the token
MergeWithoutToken(participant, changes) ==
    [a \in DOMAIN participant \cup DOMAIN changes |->
        IF a \in DOMAIN changes THEN changes[a]
        ELSE IF a = "token" THEN NoToken
        ELSE participant[a]]

\* set_user: the loop over changes.iteritems() applied to deepcopy(participant)
Merge(participant, changes) ==
    LET removed == {a \in DOMAIN changes : IsNone(a) /\ a \in DOMAIN participant}
    IN [a \in (DOMAIN participant \cup DOMAIN changes) \ removed |->
            IF a \in DOMAIN changes THEN changes[a] ELSE participant[a]]

\* get_token without `del access_tokens[participant["token"]]`
IssueTokenKeepingOld(participant, username, token) ==
    [t \in DOMAIN access_tokens \cup {token} |->
        IF t = token
        THEN [username |-> username, uid |-> participant["uid"],
              expires |-> Expires(now)]
        ELSE access_tokens[t]]

\* get_token: access_tokens after the previous token is deleted and the new
\* one recorded
IssueToken(participant, username, token) ==
    LET kept == IF participant["token"] # NoToken
                THEN DOMAIN access_tokens \ {participant["token"]}
                ELSE DOMAIN access_tokens
    IN [t \in kept \cup {token} |->
            IF t = token
            THEN [username |-> username, uid |-> participant["uid"],
                  expires |-> Expires(now)]
            ELSE access_tokens[t]]

\* The request bodies of PUT /users/<uid>
NoJson == [json |-> FALSE]
Json(changes) == [json |-> TRUE, changes |-> changes]

Bodies ==
    { NoJson,
      Json([position |-> Str(<<"A","d","m","i","n">>)]),
      Json([position |-> Str(<<"I","n","t","e","r","n">>)]),
      Json([position |-> Null]),
      Json([position |-> Str(<<"A","D","M","I","N">>), uid |-> Str(<<"6","0","0">>)]) }

\* The credentials of GET /token
Credentials ==
    { << <<"A","L"," ">>, "pw1" >>, << <<"a","l">>, "pw2" >>,
      << <<"b","o">>, "pw2" >>, << <<"z">>, "pw1" >> }

\* The uids of /users/<uid>: the two participants' and an employee's
Uids == { MAX_PARTICIPANT_UID, MAX_PARTICIPANT_UID + 1, 600 }

\* The tokens a client presents: one that was handed out, or none (any other
\* string is as unknown to the service as none)
Tokens == DOMAIN issued \cup {NoToken}

\* A reply: the operation and the token presented with it, the status and error
\* of the response, whether the wrapper called the handler and with which
\* privileged flag; token, uid and expires are the body of GET /token's 200,
\* body is the "users" list of GET /users or the one "user" of GET /users/<uid>.
Reply(op, presented, status, error, authorized, privileged) ==
    [op |-> op, presented |-> presented, status |-> status, error |-> error,
     authorized |-> authorized, privileged |-> privileged,
     token |-> NoToken, uid |-> 0, expires |-> 0, body |-> <<>>]

Idle == Reply("none", NoToken, 0, "", FALSE, FALSE)

\* No request is in progress
NoThreads == <<>>

\* __main__ with the participants file `rows`
Start(rows) ==
    /\ participants_file = rows
    /\ participant_data = load_participants(rows)
    /\ employee_data = load_employees(EmployeeRows)
    /\ access_tokens = <<>>
    /\ save_filename \in {"", "state.json"}
    /\ snapshot = NoSnapshot
    /\ now = 0
    /\ ticks = 0
    /\ issued = <<>>
    /\ saved = FALSE
    /\ response = Idle
    /\ threads = NoThreads

Init == Start(ParticipantRows)

\* time passes
Tick(d, limit) ==
    /\ ticks < limit
    /\ now' = now + d
    /\ ticks' = ticks + 1
    /\ UNCHANGED <<participant_data, access_tokens, save_filename, snapshot,
                   issued, saved, response, others>>

\* A request that changes nothing but the response
Answer(r) ==
    /\ response' = r
    /\ saved' = FALSE
    /\ UNCHANGED <<participant_data, access_tokens, save_filename, snapshot,
                   now, ticks, issued, others>>

\* get_token with the password never compared
UnknownUserOnly(username, password) ==
    username \notin DOMAIN participant_data

\* get_token: `not participant or participant["password"] != password`
BadCredentials(username, password) ==
    \/ username \notin DOMAIN participant_data
    \/ participant_data[username]["password"] # password

\* GET /token
get_token(user, pass) ==
    LET username == Lower(Strip(user))
        password == SHA1(pass)
        token    == Cardinality(DOMAIN issued) + 1
    IN IF BadCredentials(username, password)
       THEN Answer(Reply("get_token", NoToken, 401, "bad user credentials", FALSE, FALSE))
       ELSE IF /\ participant_data[username]["token"] # NoToken
               /\ participant_data[username]["token"] \notin DOMAIN access_tokens
       THEN \* del access_tokens[...] raises KeyError before anything is written
            Answer(Reply("get_token", NoToken, 500, "KeyError", FALSE, FALSE))
       ELSE /\ token <= MaxTokens
            /\ access_tokens' = IssueToken(participant_data[username], username, token)
            /\ participant_data' =
                   [participant_data EXCEPT ![username]["token"] = token]
            /\ snapshot' = save_participants(participant_data', access_tokens')
            /\ saved' = Saves
            /\ issued' = [t \in DOMAIN issued \cup {token} |->
                             IF t = token THEN [username |-> username, at |-> now]
                             ELSE issued[t]]
            /\ response' = [Reply("get_token", NoToken, 200, "", FALSE, FALSE) EXCEPT
                               !.token = token,
                               !.uid = participant_data[username]["uid"],
                               !.expires = access_tokens'[token].expires]
            /\ UNCHANGED <<save_filename, now, ticks, others>>

\* ensure_valid_token: the replies of the wrapper itself
Unauthorized(op, token) ==
    IF TokenRejected(token)
    THEN Reply(op, token, 403, "bad access token", FALSE, FALSE)
    ELSE Reply(op, token, 500, "AttributeError", FALSE, FALSE)

\* ensure_valid_token: whether the wrapped handler is called
Authorized(token) ==
    /\ ~TokenRejected(token)
    /\ PositionIsText(Caller(token))

\* The attributes every caller is shown
attributes == {"uid", "username", "name", "location", "department", "position"}

\* {k: record[k] for k in keys}
Entry(record, keys) == [k \in keys |-> record[k]]

\* record[k] raises KeyError for a key the record lacks
Complete(record, keys) == keys \subseteq DOMAIN record

\* employee_data.itervalues(): the employee records in the order of the dict
RECURSIVE itervalues(_)
itervalues(d) ==
    IF DOMAIN d = {}
    THEN <<>>
    ELSE LET k == CHOOSE k \in DOMAIN d : \A j \in DOMAIN d : k <= j
         IN <<d[k]>> \o itervalues([j \in DOMAIN d \ {k} |-> d[j]])

\* shuffle(results): the orders the list can be left in
shuffle(results) ==
    { [i \in DOMAIN results |-> results[p[i]]] : p \in Permutations(DOMAIN results) }

\* get_users showing the notes of the employees to every caller
StaffAttributesWithNotes(privileged) == attributes \cup {"notes"}

\* get_users: the attributes of an employee's entry
StaffAttributes(privileged) ==
    IF privileged THEN attributes \cup {"notes"} ELSE attributes

\* GET /users
get_users(token) ==
    IF ~Authorized(token)
    THEN Answer(Unauthorized("get_users", token))
    ELSE LET participant == Caller(token)
             privileged  == has_admin_privileges(participant)
             employees   == itervalues(employee_data)
             reply(status, error) ==
                 Reply("get_users", token, status, error, TRUE, privileged)
         IN IF \/ \E i \in DOMAIN employees :
                      ~Complete(employees[i], StaffAttributes(privileged))
               \/ ~Complete(participant, attributes \cup {"notes"})
            THEN Answer(reply(500, "KeyError"))
            ELSE LET results ==
                         [i \in DOMAIN employees |->
                             Entry(employees[i], StaffAttributes(privileged))]
                         \o << Entry(participant, attributes \cup {"notes"}) >>
                 IN \E users \in shuffle(results) :
                        Answer([reply(200, "") EXCEPT !.body = users])

\* get_user: `participant["uid"] == uid`, the caller asks for their own record
IsOwn(participant, uid) == participant["uid"] = uid

\* GET /users/<uid>
get_user(token, uid) ==
    IF ~Authorized(token)
    THEN Answer(Unauthorized("get_user", token))
    ELSE LET participant == Caller(token)
             privileged  == has_admin_privileges(participant)
             reply(status, error) ==
                 Reply("get_user", token, status, error, TRUE, privileged)
         IN IF IsOwn(participant, uid)
            THEN IF ~Complete(participant, attributes \cup {"notes"})
                 THEN Answer(reply(500, "KeyError"))
                 ELSE Answer([reply(200, "") EXCEPT
                                 !.body = << Entry(participant, attributes \cup {"notes"}) >>])
            ELSE IF uid \in DOMAIN employee_data
            THEN IF ~Complete(employee_data[uid], StaffAttributes(privileged))
                 THEN Answer(reply(500, "KeyError"))
                 ELSE Answer([reply(200, "") EXCEPT
                                 !.body = << Entry(employee_data[uid],
                                                   StaffAttributes(privileged)) >>])
            ELSE Answer(reply(404, "user not found"))

\* set_user storing the entry under every username
StoreForEveryone(username, entry) ==
    [u \in DOMAIN participant_data |-> entry]

\* set_user: participant_data[access_tokens[token]["username"]] = entry
StoreEntry(username, entry) ==
    [participant_data EXCEPT ![username] = entry]

\* PUT /users/<uid>
set_user(token, uid, body) ==
    IF ~Authorized(token)
    THEN Answer(Unauthorized("set_user", token))
    ELSE LET participant == Caller(token)
             privileged  == has_admin_privileges(participant)
             username    == access_tokens[token].username
             reply(status, error) ==
                 Reply("set_user", token, status, error, TRUE, privileged)
         IN IF uid # participant["uid"]
            THEN Answer(reply(403, IF privileged THEN "not implemented" ELSE "forbidden"))
            ELSE IF ~body.json
            THEN Answer(reply(400, "Invalid JSON"))
            ELSE IF BadAttributes(body.changes) # {}
            THEN Answer(reply(400, "bad attribute(s)"))
            ELSE LET entry == Merge(participant, body.changes)
                 IN IF entry = participant
                    THEN Answer(reply(304, "changes already match existing entry"))
                    ELSE /\ participant_data' = StoreEntry(username, entry)
                         /\ snapshot' = save_participants(participant_data', access_tokens)
                         /\ saved' = Saves
                         /\ response' = reply(200, "")
                         /\ UNCHANGED <<access_tokens, save_filename, now, ticks,
                                        issued, others>>

\* The process is restarted with the same --save file: __main__ restores the
\* snapshot when the file exists and loads the pristine participants otherwise.
\* (A restart without --save is a new run from Init.)
Restart ==
    /\ save_filename # ""
    /\ IF snapshot.exists
       THEN /\ participant_data' = snapshot.participants
            /\ access_tokens' = snapshot.tokens
       ELSE /\ participant_data' = load_participants(participants_file)
            /\ access_tokens' = <<>>
    /\ saved' = FALSE
    /\ response' = Idle
    /\ UNCHANGED <<save_filename, snapshot, now, ticks, issued, others>>

Next ==
    \/ Tick(LifetimeTicks + 1, MaxTicks)
    \/ \E c \in Credentials : get_token(c[1], c[2])
    \/ \E t \in Tokens : get_users(t)
    \/ \E t \in Tokens, uid \in Uids : get_user(t, uid)
    \/ \E t \in Tokens, uid \in Uids, b \in Bodies : set_user(t, uid, b)
    \/ Restart

Spec == Init /\ [][Next]_vars

\* The clock in detail: tokens are requested and presented while time passes in
\* single ticks and in steps of almost a lifetime.
NextClock ==
    \/ \E d \in TickSteps : Tick(d, MaxClockTicks)
    \/ \E c \in Credentials : get_token(c[1], c[2])
    \/ \E t \in Tokens : get_users(t)

SpecClock == Init /\ [][NextClock]_vars

\* The rows a participants file is made of: two spellings of one username, and
\* another username
RowChoices ==
    { << <<" ","A","l">>, SHA1("pw1") >>,
      << <<"a","l">>, SHA1("pw2") >>,
      << <<"b","o"," ">>, SHA1("pw2") >> }

\* The participants files of at most MaxRows rows
ParticipantFiles ==
    UNION { [1..n -> RowChoices] : n \in 0..MaxRows }

\* The uids asked for in SpecLoad
LoadUids == MAX_PARTICIPANT_UID - 1 .. MAX_PARTICIPANT_UID + MaxRows

InitLoad == \E rows \in ParticipantFiles : Start(rows)

\* The service started on any participants file: tokens are requested and
\* records are read.
NextLoad ==
    \/ \E c \in Credentials : get_token(c[1], c[2])
    \/ \E t \in Tokens, uid \in LoadUids : get_user(t, uid)

SpecLoad == InitLoad /\ [][NextLoad]_vars

(************************ handlers run concurrently ***********************)

\* One GET /token ("g") and one PUT /users/<uid> ("s") are served by two
\* threads with no lock between them: each handler is a sequence of steps, one
\* per read or write of the shared tables, and the steps interleave.  A local
\* variable `participant` is a reference to a dict: get_token writes through
\* it, and set_user replaces the dict in participant_data by a copy, after
\* which a reference taken before points to the dict that was replaced.

Running(name) == name \in DOMAIN threads

\* The thread ends
Finish(name) == [n \in DOMAIN threads \ {name} |-> threads[n]]

\* The thread starts or moves on
Continue(name, locals) == (name :> locals) @@ threads

\* The dict that get_token's `participant` refers to
Referenced(g) ==
    IF g.orphan THEN g.participant ELSE participant_data[g.username]

\* A thread answers and ends, writing nothing shared
ThreadAnswer(name, r) ==
    /\ response' = r
    /\ saved' = FALSE
    /\ threads' = Finish(name)
    /\ UNCHANGED <<participant_data, access_tokens, save_filename, snapshot,
                   now, ticks, issued, employee_data, participants_file>>

\* get_token, lines 160-172: the record is looked up and the credentials are
\* checked
ReadCredential(user, pass) ==
    LET username == Lower(Strip(user))
        password == SHA1(pass)
        token    == Cardinality(DOMAIN issued) + 1
    IN /\ ~Running("g")
       /\ IF BadCredentials(username, password)
          THEN /\ response' = Reply("get_token", NoToken, 401,
                                     "bad user credentials", FALSE, FALSE)
               /\ saved' = FALSE
               /\ UNCHANGED threads
          ELSE /\ token <= MaxTokens
               /\ threads' = Continue("g", [pc |-> "revoke", username |-> username,
                                             token |-> token, orphan |-> FALSE,
                                             participant |-> <<>>])
               /\ UNCHANGED <<response, saved>>
       /\ UNCHANGED <<participant_data, access_tokens, save_filename, snapshot,
                      now, ticks, issued, employee_data, participants_file>>

\* get_token, lines 174-175: del access_tokens[participant["token"]]
RevokePrevious ==
    /\ Running("g")
    /\ threads["g"].pc = "revoke"
    /\ LET previous == Referenced(threads["g"])["token"]
       IN IF previous = NoToken
          THEN /\ threads' = Continue("g", [threads["g"] EXCEPT !.pc = "record"])
               /\ UNCHANGED <<participant_data, access_tokens, save_filename,
                              snapshot, now, ticks, issued, saved, response,
                              employee_data, participants_file>>
          ELSE IF previous \notin DOMAIN access_tokens
          THEN ThreadAnswer("g", Reply("get_token", NoToken, 500, "KeyError",
                                      FALSE, FALSE))
          ELSE /\ access_tokens' =
                      [t \in DOMAIN access_tokens \ {previous} |-> access_tokens[t]]
               /\ threads' = Continue("g", [threads["g"] EXCEPT !.pc = "record"])
               /\ UNCHANGED <<participant_data, save_filename, snapshot, now, ticks,
                              issued, saved, response, employee_data,
                              participants_file>>

\* get_token, line 177: participant["token"] = token, written to the dict the
\* reference points to
RecordToken ==
    /\ Running("g")
    /\ threads["g"].pc = "record"
    /\ LET g == threads["g"]
       IN IF g.orphan
          THEN /\ threads' = Continue("g",
                      [g EXCEPT !.pc = "table", !.participant["token"] = g.token])
               /\ UNCHANGED participant_data
          ELSE /\ participant_data' =
                      [participant_data EXCEPT ![g.username]["token"] = g.token]
               /\ threads' = Continue("g", [g EXCEPT !.pc = "table"])
    /\ UNCHANGED <<access_tokens, save_filename, snapshot, now, ticks, issued,
                   saved, response, employee_data, participants_file>>

\* get_token, lines 179-183: access_tokens[token] = {...}
WriteTokenTable ==
    /\ Running("g")
    /\ threads["g"].pc = "table"
    /\ LET g == threads["g"]
       IN /\ access_tokens' =
                 [t \in DOMAIN access_tokens \cup {g.token} |->
                     IF t = g.token
                     THEN [username |-> g.username,
                           uid      |-> Referenced(g)["uid"],
                           expires  |-> Expires(now)]
                     ELSE access_tokens[t]]
          /\ threads' = Continue("g", [g EXCEPT !.pc = "save"])
    /\ UNCHANGED <<participant_data, save_filename, snapshot, now, ticks, issued,
                   saved, response, employee_data, participants_file>>

\* get_token, lines 185-193: save_participants() and the 200
PersistToken ==
    /\ Running("g")
    /\ threads["g"].pc = "save"
    /\ LET g == threads["g"]
       IN /\ snapshot' = save_participants(participant_data, access_tokens)
          /\ saved' = Saves
          /\ issued' = [t \in DOMAIN issued \cup {g.token} |->
                           IF t = g.token THEN [username |-> g.username, at |-> now]
                           ELSE issued[t]]
          /\ response' = [Reply("get_token", NoToken, 200, "", FALSE, FALSE) EXCEPT
                             !.token = g.token,
                             !.uid = Referenced(g)["uid"]]
          /\ threads' = Finish("g")
    /\ UNCHANGED <<participant_data, access_tokens, save_filename, now, ticks,
                   employee_data, participants_file>>

\* ensure_valid_token and set_user, lines 142-147 and 245-270: the token is
\* checked, the record is read, the uid and the body are checked
ReadRecord(token, uid, body) ==
    /\ ~Running("s")
    /\ IF ~Authorized(token)
       THEN ThreadAnswer("s", Unauthorized("set_user", token))
       ELSE LET participant == Caller(token)
                privileged  == has_admin_privileges(participant)
                reply(status, error) ==
                    Reply("set_user", token, status, error, TRUE, privileged)
            IN IF uid # participant["uid"]
               THEN ThreadAnswer("s", reply(403, IF privileged THEN "not implemented"
                                                             ELSE "forbidden"))
               ELSE IF ~body.json
               THEN ThreadAnswer("s", reply(400, "Invalid JSON"))
               ELSE IF BadAttributes(body.changes) # {}
               THEN ThreadAnswer("s", reply(400, "bad attribute(s)"))
               ELSE /\ threads' = Continue("s",
                           [pc |-> "copy", token |-> token, privileged |-> privileged,
                            username |-> access_tokens[token].username,
                            changes |-> body.changes, entry |-> <<>>])
                    /\ UNCHANGED <<participant_data, access_tokens, save_filename,
                                   snapshot, now, ticks, issued, saved, response,
                                   employee_data, participants_file>>

\* set_user, lines 272-278: entry = deepcopy(participant), then the merge
CopyRecord ==
    /\ Running("s")
    /\ threads["s"].pc = "copy"
    /\ LET t == threads["s"]
       IN threads' = Continue("s",
              [t EXCEPT !.pc = "replace",
                        !.entry = Merge(participant_data[t.username], t.changes)])
    /\ UNCHANGED <<participant_data, access_tokens, save_filename, snapshot, now,
                   ticks, issued, saved, response, employee_data, participants_file>>

\* set_user, lines 280-284: the 304 when the copy equals the record, else
\* participant_data[access_tokens[token]["username"]] = entry
ReplaceRecord ==
    /\ Running("s")
    /\ threads["s"].pc = "replace"
    /\ LET t == threads["s"]
           reply(status, error) ==
               Reply("set_user", t.token, status, error, TRUE, t.privileged)
       IN IF t.entry = participant_data[t.username]
          THEN ThreadAnswer("s", reply(304, "changes already match existing entry"))
          ELSE IF t.token \notin DOMAIN access_tokens
          THEN ThreadAnswer("s", reply(500, "KeyError"))
          ELSE /\ participant_data' = StoreEntry(t.username, t.entry)
               /\ threads' =
                      LET moved == Continue("s", [t EXCEPT !.pc = "save"])
                      IN IF /\ Running("g")
                            /\ threads["g"].username = t.username
                            /\ ~threads["g"].orphan
                         THEN [moved EXCEPT !["g"].orphan = TRUE,
                                            !["g"].participant =
                                                participant_data[t.username]]
                         ELSE moved
               /\ UNCHANGED <<access_tokens, save_filename, snapshot, now, ticks,
                              issued, saved, response, employee_data,
                              participants_file>>

\* set_user, lines 285-288: save_participants() and the 200
PersistRecord ==
    /\ Running("s")
    /\ threads["s"].pc = "save"
    /\ snapshot' = save_participants(participant_data, access_tokens)
    /\ saved' = Saves
    /\ response' = Reply("set_user", threads["s"].token, 200, "", TRUE,
                         threads["s"].privileged)
    /\ threads' = Finish("s")
    /\ UNCHANGED <<participant_data, access_tokens, save_filename, now, ticks,
                   issued, employee_data, participants_file>>

NextThreads ==
    \/ \E c \in Credentials : ReadCredential(c[1], c[2])
    \/ RevokePrevious
    \/ RecordToken
    \/ WriteTokenTable
    \/ PersistToken
    \/ \E t \in Tokens, uid \in Uids, b \in Bodies : ReadRecord(t, uid, b)
    \/ CopyRecord
    \/ ReplaceRecord
    \/ PersistRecord

SpecThreads == Init /\ [][NextThreads]_vars
(******************************* claims ***********************************)

\* The token most recently handed out to its participant
Current(t) ==
    /\ t \in DOMAIN issued
    /\ \A t2 \in DOMAIN issued : issued[t2].username = issued[t].username => t2 <= t

\* A token whose participant was handed a later one
Superseded(t) == t \in DOMAIN issued /\ ~Current(t)

\* The expiry GET /token returned for t, in ticks
ExpiryTicks(t) == ((issued[t].at + LifetimeTicks) \div TicksPerSecond) * TicksPerSecond

ProtectedOps == {"get_users", "get_user", "set_user"}

\* The step is a request: requests take no time and leave a reply
Request == now' = now /\ response'.op # "none"

\* The step is a request to a token-protected route presenting token t
Protected(t) == Request /\ response'.op \in ProtectedOps /\ response'.presented = t

\* C1: once a participant has been handed a second token, every protected
\* operation presenting the first is refused with 403 "bad access token", while
\* one presenting the second is not refused so long as the second has not
\* expired.
C1_ReissueInvalidates ==
    [][\A t \in DOMAIN issued :
          Protected(t) =>
             /\ Superseded(t) =>
                   /\ response'.status = 403
                   /\ response'.error = "bad access token"
                   /\ ~response'.authorized
             /\ (Current(t) /\ now <= ExpiryTicks(t)) =>
                   response'.error # "bad access token"]_vars

\* C1 witness: a participant holds a second token; the first was presented to
\* PUT /users/<uid> and refused.
C1_Witness ==
    \E t1, t2 \in DOMAIN issued :
        /\ t1 < t2
        /\ issued[t1].username = issued[t2].username
        /\ response.op = "set_user"
        /\ response.presented = t1
        /\ response.status = 403
        /\ ~TokenRejected(t2)

\* C2: a token is a key of access_tokens exactly when it is the token recorded
\* in the record of the participant it names; so a participant has at most one
\* entry and the table has no more entries than there are participants.
C2_TableMatchesRecordedTokens ==
    /\ \A t \in DOMAIN access_tokens :
          /\ access_tokens[t].username \in DOMAIN participant_data
          /\ participant_data[access_tokens[t].username]["token"] = t
    /\ \A u \in DOMAIN participant_data :
          participant_data[u]["token"] # NoToken =>
             /\ participant_data[u]["token"] \in DOMAIN access_tokens
             /\ access_tokens[participant_data[u]["token"]].username = u
    /\ \A t1, t2 \in DOMAIN access_tokens :
          access_tokens[t1].username = access_tokens[t2].username => t1 = t2
    /\ Cardinality(DOMAIN access_tokens) <= Cardinality(DOMAIN participant_data)

\* C2 witness: a participant was handed two tokens and changed their record
\* since; the table holds one entry for them.
C2_Witness ==
    \E t1, t2 \in DOMAIN issued :
        /\ t1 < t2
        /\ issued[t1].username = issued[t2].username
        /\ t2 \in DOMAIN access_tokens
        /\ response.op = "set_user"
        /\ response.status = 200

\* C3 (as claimed): a token validates exactly while the current time is
\* strictly less than its issuance time plus the lifetime.
C3_ValidWhileBeforeIssuePlusTTL ==
    [][\A t \in DOMAIN issued :
          (Protected(t) /\ Current(t)) =>
             (response'.error # "bad access token"
                 <=> now < issued[t].at + LifetimeTicks)]_vars

\* C3 (amended): the expiry of a token issued at time t is int(t + 900), in
\* whole seconds, and the token validates exactly while the current time is at
\* most that expiry; it is refused once the current time is past it.
C3_ValidUntilExpiryInclusive ==
    [][\A t \in DOMAIN issued :
          (Protected(t) /\ Current(t)) =>
             (response'.error # "bad access token" <=> now <= ExpiryTicks(t))]_vars

\* C3 witness: the participant's latest token, still in the table, is refused
\* one tick after its expiry.
C3_Witness ==
    \E t \in DOMAIN access_tokens :
        /\ Current(t)
        /\ response.op = "get_users"
        /\ response.presented = t
        /\ response.error = "bad access token"
        /\ now = ExpiryTicks(t) + 1

\* position is present, a string, and "admin" in some casing
PositionIsAdmin(user) ==
    /\ "position" \in DOMAIN user
    /\ user["position"].kind = "str"
    /\ Lower(user["position"].val) = <<"a","d","m","i","n">>

\* The token is known and has not expired
Valid(t) ==
    /\ t \in DOMAIN access_tokens
    /\ now <= access_tokens[t].expires * TicksPerSecond

\* The participant a valid token names
Owner(t) == participant_data[access_tokens[t].username]

\* C4 (as claimed): every call with a valid token is made with the privileged
\* flag equal to (position of the caller's current record, lower-cased, is
\* "admin"), and a successful self-update stores the submitted position, so the
\* next call is privileged after any casing of "admin" and unprivileged after
\* anything else.
C4_PrivilegeFromCurrentPosition ==
    [][/\ \A t \in Tokens :
             (Valid(t) /\ Protected(t)) =>
                /\ response'.authorized
                /\ response'.privileged = PositionIsAdmin(Owner(t))
       /\ \A t \in Tokens, b \in Bodies :
             (/\ Valid(t)
              /\ b.json
              /\ "position" \in DOMAIN b.changes
              /\ set_user(t, Owner(t)["uid"], b)
              /\ response'.status = 200) =>
                participant_data'[access_tokens[t].username]["position"]
                    = b.changes["position"]]_vars

\* C4, for callers whose position is a string: the same statement.
C4_WhenPositionIsText ==
    [][/\ \A t \in Tokens :
             (Valid(t) /\ Protected(t) /\ PositionIsText(Owner(t))) =>
                /\ response'.authorized
                /\ response'.privileged = PositionIsAdmin(Owner(t))
       /\ \A t \in Tokens, b \in Bodies :
             (/\ Valid(t)
              /\ b.json
              /\ "position" \in DOMAIN b.changes
              /\ set_user(t, Owner(t)["uid"], b)
              /\ response'.status = 200) =>
                participant_data'[access_tokens[t].username]["position"]
                    = b.changes["position"]]_vars

\* The request changed no participant, no token and no snapshot
NothingWritten ==
    /\ UNCHANGED <<participant_data, access_tokens, snapshot>>
    /\ saved' = FALSE

\* C5 (as claimed): PUT /users/<uid> with a valid token and a uid other than
\* the caller's returns 403 and writes nothing; the error is "not implemented"
\* exactly when the caller is privileged and "forbidden" otherwise.
C5_OtherUidForbidden ==
    [][\A t \in Tokens, uid \in Uids, b \in Bodies :
          (Valid(t) /\ uid # Owner(t)["uid"] /\ set_user(t, uid, b)) =>
             /\ response'.status = 403
             /\ response'.error =
                   IF PositionIsAdmin(Owner(t)) THEN "not implemented" ELSE "forbidden"
             /\ NothingWritten]_vars

\* C5, for callers whose position is a string: the same statement.
C5_WhenPositionIsText ==
    [][\A t \in Tokens, uid \in Uids, b \in Bodies :
          (/\ Valid(t) /\ PositionIsText(Owner(t))
           /\ uid # Owner(t)["uid"] /\ set_user(t, uid, b)) =>
             /\ response'.status = 403
             /\ response'.error =
                   IF PositionIsAdmin(Owner(t)) THEN "not implemented" ELSE "forbidden"
             /\ NothingWritten]_vars

\* The change set submits only writable attributes
Writable(changes) ==
    DOMAIN changes \subseteq {"name", "location", "department", "position", "notes"}

\* Every submitted attribute already has the submitted value
NoChange(user, changes) ==
    \A k \in DOMAIN changes : k \in DOMAIN user /\ user[k] = changes[k]

\* C6 (as claimed): a self-update whose changes leave the record as it is
\* returns 304 and writes nothing.
C6_NoOpUpdateNotModified ==
    [][\A t \in Tokens, b \in Bodies :
          (/\ Valid(t)
           /\ b.json
           /\ Writable(b.changes)
           /\ NoChange(Owner(t), b.changes)
           /\ set_user(t, Owner(t)["uid"], b)) =>
             /\ response'.status = 304
             /\ NothingWritten]_vars

\* C6, for callers whose position is a string: the same statement.
C6_WhenPositionIsText ==
    [][\A t \in Tokens, b \in Bodies :
          (/\ Valid(t) /\ PositionIsText(Owner(t))
           /\ b.json
           /\ Writable(b.changes)
           /\ NoChange(Owner(t), b.changes)
           /\ set_user(t, Owner(t)["uid"], b)) =>
             /\ response'.status = 304
             /\ NothingWritten]_vars

\* C7 (as claimed): after a successful self-update, an attribute that existed
\* and was submitted as null is no longer in the stored record.
C7_NullRemovesAttribute ==
    [][\A t \in Tokens, b \in Bodies :
          (/\ Valid(t)
           /\ b.json
           /\ set_user(t, Owner(t)["uid"], b)
           /\ response'.status = 200) =>
             \A k \in DOMAIN b.changes :
                (b.changes[k] = Null /\ k \in DOMAIN Owner(t)) =>
                    k \notin DOMAIN participant_data'[access_tokens[t].username]]_vars

\* C7, what the code does: the attribute stays in the record, with value null.
C7_NullIsStored ==
    [][\A t \in Tokens, b \in Bodies :
          (/\ Valid(t)
           /\ b.json
           /\ set_user(t, Owner(t)["uid"], b)
           /\ response'.status = 200) =>
             \A k \in DOMAIN b.changes :
                /\ k \in DOMAIN participant_data'[access_tokens[t].username]
                /\ participant_data'[access_tokens[t].username][k] = b.changes[k]]_vars

\* C8 (as claimed): a self-update submitting an attribute outside the writable
\* set returns 400 and writes nothing.
C8_BadAttributeRejected ==
    [][\A t \in Tokens, b \in Bodies :
          (/\ Valid(t)
           /\ b.json
           /\ ~Writable(b.changes)
           /\ set_user(t, Owner(t)["uid"], b)) =>
             /\ response'.status = 400
             /\ NothingWritten]_vars

\* C8, for callers whose position is a string: the same statement.
C8_WhenPositionIsText ==
    [][\A t \in Tokens, b \in Bodies :
          (/\ Valid(t) /\ PositionIsText(Owner(t))
           /\ b.json
           /\ ~Writable(b.changes)
           /\ set_user(t, Owner(t)["uid"], b)) =>
             /\ response'.status = 400
             /\ response'.error = "bad attribute(s)"
             /\ NothingWritten]_vars

\* C9: GET /token with an unknown username or a wrong password returns 401 and
\* changes nothing: no participant, no token, no snapshot, nothing handed out,
\* no write; every token that validated before still validates.
C9_BadCredentialsChangeNothing ==
    [][\A c \in Credentials :
          (/\ get_token(c[1], c[2])
           /\ LET username == Lower(Strip(c[1]))
              IN \/ username \notin DOMAIN participant_data
                 \/ participant_data[username]["password"] # SHA1(c[2])) =>
             /\ response'.status = 401
             /\ NothingWritten
             /\ UNCHANGED issued
             /\ \A t \in DOMAIN issued : Valid(t) => Valid(t)']_vars

\* C9 witness: a wrong password was refused for a participant who holds a
\* token, and that token still validates.
C9_Witness ==
    /\ response.op = "get_token"
    /\ response.status = 401
    /\ ~saved
    /\ \E t \in DOMAIN issued : Current(t) /\ ~TokenRejected(t)

\* C10: with a save file configured, after a 200 of GET /token or of PUT the
\* save file holds exactly the participant map and the token table in memory.
C10_SnapshotAfterMutation ==
    (/\ save_filename # ""
     /\ response.op \in {"get_token", "set_user"}
     /\ response.status = 200) =>
        /\ saved
        /\ snapshot.exists
        /\ snapshot.participants = participant_data
        /\ snapshot.tokens = access_tokens

\* C10 witness: a second token was handed out and saved.
C10_Witness ==
    /\ save_filename # ""
    /\ response.op = "get_token"
    /\ response.status = 200
    /\ response.token = 2
    /\ saved
    /\ snapshot.exists

\* The attributes of a record that every caller may see
Public == {"uid", "username", "name", "location", "department", "position"}

\* The record restricted to the attributes `keys`
Shown(record, keys) == [k \in keys |-> record[k]]

\* What a caller whose record is `caller` is shown of an employee
StaffView(caller, employee) ==
    Shown(employee, IF PositionIsAdmin(caller) THEN Public \cup {"notes"} ELSE Public)

\* What a caller is shown of their own record
OwnView(caller) == Shown(caller, Public \cup {"notes"})

\* C11: the list of GET /users holds exactly one entry for each employee and
\* exactly one entry for the caller, and none for any other participant; an
\* employee's entry has the public attributes, and notes exactly when the
\* caller is privileged; the caller's own entry has notes in either case.
C11_ListIsStaffPlusCaller ==
    (response.op = "get_users" /\ response.status = 200) =>
        LET users  == response.body
            caller == Owner(response.presented)
        IN /\ Len(users) = Cardinality(DOMAIN employee_data) + 1
           /\ \E own \in DOMAIN users :
                 /\ users[own] = OwnView(caller)
                 /\ \A uid \in DOMAIN employee_data :
                       /\ Cardinality({i \in DOMAIN users \ {own} :
                                          users[i] = StaffView(caller, employee_data[uid])}) = 1
                       /\ Cardinality({i \in DOMAIN users \ {own} :
                                          users[i]["uid"] = uid}) = 1
                 /\ \A i \in DOMAIN users \ {own} :
                       /\ users[i]["uid"] \in DOMAIN employee_data
                       /\ "notes" \in DOMAIN users[i] <=> PositionIsAdmin(caller)
                       /\ \A u \in DOMAIN participant_data :
                             users[i]["username"] # u

\* C11 witness: a privileged caller was shown the employees with their notes
\* and their own entry last, while another participant is not privileged.
C11_Witness ==
    /\ response.op = "get_users"
    /\ response.status = 200
    /\ Len(response.body) = 3
    /\ response.body[3] = OwnView(Owner(response.presented))
    /\ "notes" \in DOMAIN response.body[1]
    /\ \E u \in DOMAIN participant_data : ~PositionIsAdmin(participant_data[u])

\* The wrapper calls the handler for this token
Called(t) == Valid(t) /\ PositionIsText(Owner(t))

\* The uids of the participants other than `caller`
OtherParticipantUids(caller) ==
    { participant_data[u]["uid"] : u \in DOMAIN participant_data \ {caller["username"]} }

\* GET /users/<uid> answers with the caller's own record for the caller's uid,
\* else with the employee of that uid, else with 404
GetByCases(t, uid) ==
    LET caller == Owner(t)
    IN IF uid = caller["uid"]
       THEN /\ response'.status = 200
            /\ response'.body = << OwnView(caller) >>
       ELSE IF uid \in DOMAIN employee_data
       THEN /\ response'.status = 200
            /\ response'.body = << StaffView(caller, employee_data[uid]) >>
       ELSE /\ response'.status = 404
            /\ response'.body = <<>>

\* C12 (as claimed): GET /users/<uid> returns the caller's own record with notes
\* for the caller's uid, else the employee of that uid (notes only for a
\* privileged caller), else 404; and the uid of another participant is
\* answered with 404, whoever asks.
C12_OtherParticipantNotFound ==
    [][\A t \in Tokens, uid \in Uids :
          (Called(t) /\ get_user(t, uid)) =>
             /\ GetByCases(t, uid)
             /\ uid \in OtherParticipantUids(Owner(t)) => response'.status = 404]_vars

\* C12, what holds of the code: the three cases, and the record in a 200 is
\* never that of another participant (it is the caller's or an employee's), so
\* no participant is shown anything of another participant's record.
C12_NeverAnotherParticipantsRecord ==
    [][\A t \in Tokens, uid \in Uids :
          (Called(t) /\ get_user(t, uid)) =>
             /\ GetByCases(t, uid)
             /\ response'.status = 200 =>
                   \A u \in DOMAIN participant_data \ {Owner(t)["username"]} :
                       /\ response'.body[1]["username"] # u
                       /\ response'.body[1] # OwnView(participant_data[u])]_vars

\* C12 witness of the second statement: a privileged caller asked for the uid
\* of another participant, which no employee has, and got 404.
C12_Witness ==
    /\ response.op = "get_user"
    /\ response.status = 404
    /\ response.privileged
    /\ MAX_PARTICIPANT_UID \in OtherParticipantUids(Owner(response.presented))

\* {"position": "Admin"}
AdminBody == Json([position |-> Str(<<"A","d","m","i","n">>)])

\* The record the participant was loaded with, holding the token t
Default(t) ==
    [load_participants(participants_file)[access_tokens[t].username]
        EXCEPT !["token"] = t]

\* The same record with position "Admin"
Promoted(t) == [Default(t) EXCEPT !["position"] = Str(<<"A","d","m","i","n">>)]

\* The entries of a list that are not a participant's
StaffEntries(users) ==
    { i \in DOMAIN users : users[i]["username"] \notin DOMAIN participant_data }

\* C13: a participant whose record is as loaded (position "Intern") and who
\* holds a valid token gets 200 and the placeholder attributes from GET of
\* their own uid, and a list in which no employee entry has notes; their PUT of
\* {"position": "Admin"} to their own uid returns 200, stores the position and
\* leaves the token valid; from then on GET /users with the same token returns
\* a list in which every employee entry has notes.
C13_InternBecomesAdmin ==
    [][\A t \in DOMAIN access_tokens :
          (Valid(t) /\ Protected(t)) =>
             /\ (response'.op = "get_users" /\ Owner(t) = Default(t)) =>
                   /\ response'.status = 200
                   /\ Cardinality(StaffEntries(response'.body))
                         = Cardinality(DOMAIN employee_data)
                   /\ \A i \in StaffEntries(response'.body) :
                         "notes" \notin DOMAIN response'.body[i]
             /\ (/\ response'.op = "get_user"
                 /\ Owner(t) = Default(t)
                 /\ get_user(t, Owner(t)["uid"])) =>
                   /\ response'.status = 200
                   /\ response'.body = << OwnView(Default(t)) >>
                   /\ response'.body[1]["position"] = Str(<<"I","n","t","e","r","n">>)
             /\ (/\ response'.op = "set_user"
                 /\ Owner(t) = Default(t)
                 /\ set_user(t, Owner(t)["uid"], AdminBody)) =>
                   /\ response'.status = 200
                   /\ participant_data'[access_tokens[t].username] = Promoted(t)
                   /\ Valid(t)'
             /\ (response'.op = "get_users" /\ Owner(t) = Promoted(t)) =>
                   /\ response'.status = 200
                   /\ Cardinality(StaffEntries(response'.body))
                         = Cardinality(DOMAIN employee_data)
                   /\ \A i \in StaffEntries(response'.body) :
                         /\ "notes" \in DOMAIN response'.body[i]
                         /\ response'.body[i]["notes"]
                               = employee_data[response'.body[i]["uid"]]["notes"]]_vars

\* C13 witness: the list shown to the holder of the first token, whose record
\* is as loaded but for position "Admin", has the notes of both employees.
C13_Witness ==
    /\ response.op = "get_users"
    /\ response.status = 200
    /\ response.presented = 1
    /\ Owner(1) = Promoted(1)
    /\ \A i \in StaffEntries(response.body) : "notes" \in DOMAIN response.body[i]
    /\ Cardinality(StaffEntries(response.body)) = 2

\* The username read from row i of the participants file
RowUsername(i) == Lower(Strip(participants_file[i][1]))

\* Row i is the last row of the file with its username: it is the one loaded
Loaded(i) ==
    \A j \in DOMAIN participants_file : RowUsername(j) = RowUsername(i) => j <= i

\* C14 (as claimed): participants are numbered in the order of the file
\* starting just above the boundary: the participant of the first row has uid
\* MAX_PARTICIPANT_UID + 1 and every participant's uid is above the boundary.
C14_IdsStartAboveBoundary ==
    /\ \A i \in DOMAIN participants_file :
          Loaded(i) => participant_data[RowUsername(i)]["uid"] = MAX_PARTICIPANT_UID + i
    /\ \A u \in DOMAIN participant_data :
          participant_data[u]["uid"] > MAX_PARTICIPANT_UID
    /\ (response.op = "get_token" /\ response.status = 200) =>
          response.uid > MAX_PARTICIPANT_UID

\* C14 (amended): numbering starts at the boundary itself: the participant
\* loaded from row k has uid MAX_PARTICIPANT_UID + k - 1, a repeated username
\* keeps the uid of its last row, every uid is at least the boundary, no two
\* participants share one, and GET /token reports it.
C14_IdsStartAtBoundary ==
    /\ DOMAIN participant_data =
          { RowUsername(i) : i \in DOMAIN participants_file }
    /\ \A i \in DOMAIN participants_file :
          Loaded(i) =>
             participant_data[RowUsername(i)]["uid"] = MAX_PARTICIPANT_UID + i - 1
    /\ \A u \in DOMAIN participant_data :
          /\ participant_data[u]["uid"] >= MAX_PARTICIPANT_UID
          /\ participant_data[u]["uid"] < MAX_PARTICIPANT_UID + Len(participants_file)
    /\ \A u, v \in DOMAIN participant_data :
          participant_data[u]["uid"] = participant_data[v]["uid"] => u = v
    /\ (response.op = "get_token" /\ response.status = 200) =>
          \E u \in DOMAIN participant_data :
              /\ participant_data[u]["token"] = response.token
              /\ participant_data[u]["uid"] = response.uid

\* C14 witness: the file has two participants; the first has the boundary as
\* uid, and the second was told theirs, the boundary plus one, with a token.
C14_Witness ==
    /\ Len(participants_file) = 2
    /\ Loaded(1)
    /\ participant_data[RowUsername(1)]["uid"] = MAX_PARTICIPANT_UID
    /\ response.op = "get_token"
    /\ response.status = 200
    /\ response.uid = MAX_PARTICIPANT_UID + 1

Handled == {200, 304, 400, 403, 404}

\* C16 (as claimed): whatever self-updates were accepted before, a null
\* position included, a list, get or update presenting a valid token is
\* answered with 200, 304, 400, 403 or 404, never with an unhandled error.
C16_NoUnhandledError ==
    [][\A t \in DOMAIN access_tokens :
          (Valid(t) /\ Protected(t)) => response'.status \in Handled]_vars

\* C16, what holds of the code: the same for callers whose position is a
\* string; a caller whose position is null is answered with an unhandled
\* AttributeError by every list, get and update.
C16_UnhandledIffPositionIsNull ==
    [][\A t \in DOMAIN access_tokens :
          (Valid(t) /\ Protected(t)) =>
             IF PositionIsText(Owner(t))
             THEN response'.status \in Handled
             ELSE /\ response'.status = 500
                  /\ response'.error = "AttributeError"
                  /\ NothingWritten]_vars

\* C17: a list, get or update changes no employee record, no token-table
\* entry and no record of a participant other than the caller; only an update
\* answered with 200 changes the caller's record.
C17_OnlyCallersRecordChanges ==
    [][(Request /\ response'.op \in ProtectedOps) =>
          /\ employee_data' = employee_data
          /\ access_tokens' = access_tokens
          /\ DOMAIN participant_data' = DOMAIN participant_data
          /\ \A u \in DOMAIN participant_data :
                (\/ response'.presented \notin DOMAIN access_tokens
                 \/ access_tokens[response'.presented].username # u
                 \/ response'.op # "set_user"
                 \/ response'.status # 200) =>
                    participant_data'[u] = participant_data[u]]_vars

\* C17 witness: a participant's update was accepted while another participant,
\* who holds a token, has a record changed by an update of their own.
C17_Witness ==
    /\ response.op = "set_user"
    /\ response.status = 200
    /\ \E u \in DOMAIN participant_data :
          /\ u # access_tokens[response.presented].username
          /\ participant_data[u]["token"] # NoToken
          /\ participant_data[u]["position"] # Str(<<"I","n","t","e","r","n">>)
          /\ participant_data[u]["position"]
                # participant_data[access_tokens[response.presented].username]["position"]

\* The attributes of a participant that identify them
Identity == {"uid", "username", "password"}

\* C18: no step changes the uid, the username or the password hash of a
\* participant; the recorded token changes only in a GET /token answered 200,
\* to the token handed out to that participant, and that step changes nothing
\* else of any record; an update never changes any of the four.
C18_IdentityAndTokenKept ==
    [][\A u \in DOMAIN participant_data :
          /\ u \in DOMAIN participant_data'
          /\ \A k \in Identity : participant_data'[u][k] = participant_data[u][k]
          /\ participant_data'[u]["username"] = u
          /\ participant_data'[u]["token"] # participant_data[u]["token"] =>
                /\ response'.op = "get_token"
                /\ response'.status = 200
                /\ response'.token = participant_data'[u]["token"]
                /\ issued'[response'.token].username = u
          /\ (Request /\ response'.op = "get_token") =>
                \A k \in DOMAIN participant_data[u] \ {"token"} :
                    /\ k \in DOMAIN participant_data'[u]
                    /\ participant_data'[u][k] = participant_data[u][k]]_vars

\* C18 witness: the holder of a second token had an update accepted, and their
\* record has the uid, username and password it was loaded with and that token.
C18_Witness ==
    /\ response.op = "set_user"
    /\ response.status = 200
    /\ response.presented = 2
    /\ LET user == Owner(2)
       IN /\ user["token"] = 2
          /\ user # Default(2)
          /\ \A k \in Identity : user[k] = Default(2)[k]

\* C19: a token handed out that fails validation, because it was replaced or
\* because it expired, fails validation after every later step: requests,
\* the passing of time, and a restart from the snapshot.
C19_InvalidationIsPermanent ==
    [][\A t \in DOMAIN issued :
          /\ TokenRejected(t) => TokenRejected(t)'
          /\ (TokenRejected(t) /\ Protected(t)) =>
                /\ response'.status = 403
                /\ response'.error = "bad access token"]_vars

\* C19 witness: one token was replaced and is gone from the table, its
\* successor expired and has just been refused.
C19_Witness ==
    \E t1, t2 \in DOMAIN issued :
        /\ Superseded(t1)
        /\ issued[t2].username = issued[t1].username
        /\ t1 \notin DOMAIN access_tokens
        /\ t2 \in DOMAIN access_tokens
        /\ now > access_tokens[t2].expires * TicksPerSecond
        /\ response.presented = t2
        /\ response.status = 403

\* C20 (as claimed): no uid is that of an employee and of a participant, so a
\* GET of an employee's uid is answered with that employee's record, never
\* with the caller's own.
C20_IdsOfStaffAndParticipantsDisjoint ==
    [][\A t \in Tokens, uid \in Uids :
          (Called(t) /\ uid \in DOMAIN employee_data /\ get_user(t, uid)) =>
             /\ \A u \in DOMAIN participant_data : participant_data[u]["uid"] # uid
             /\ response'.status = 200
             /\ response'.body = << StaffView(Owner(t), employee_data[uid]) >>
             /\ response'.body # << OwnView(Owner(t)) >>]_vars

\* C20, what the code does: participants are numbered upwards from the
\* boundary and employees have any uid above it, so the participant of row k,
\* k > 1, has the uid an employee may have; that participant's GET of it is
\* answered with their own record.
C20_OwnRecordShadowsEmployee ==
    [][\A t \in Tokens, uid \in Uids :
          (/\ Called(t)
           /\ uid \in DOMAIN employee_data
           /\ uid = Owner(t)["uid"]
           /\ get_user(t, uid)) =>
             /\ uid > MAX_PARTICIPANT_UID
             /\ response'.status = 200
             /\ response'.body = << OwnView(Owner(t)) >>]_vars

\* C20 witness of what the code does: a participant asked for the uid 501 of
\* an employee and was shown their own record.
C20_Witness ==
    /\ response.op = "get_user"
    /\ response.status = 200
    /\ response.body[1]["uid"] \in DOMAIN employee_data
    /\ response.body = << OwnView(Owner(response.presented)) >>
====
